---- MODULE Spec2Model ----
(***************************************************************************)
(* KiDoom plugin side: DoomBridge (doom_bridge.py), the frame queue and    *)
(* refresh timer of DoomPCBRenderer (pcb_renderer.py) and the object pools *)
(* (object_pool.py), as a state machine of three threads:                  *)
(*   "main"  runs DoomBridge.start() and the wx timer ticks,               *)
(*   "recv"  runs DoomBridge._receive_loop,                                *)
(*   "sup"   is a supervisor thread that calls DoomBridge.stop().          *)
(* The DOOM process at the other end of the socket is the peer.            *)
(***************************************************************************)
EXTENDS Integers, Sequences, FiniteSets, TLC

\* ---------------------------------------------------------------- bounds
\* Messages the peer writes in one session.
MaxMsgs == 3
\* Chunks (headers, payloads) the socket holds unread.
MaxInFlight == 2
\* FRAME_DATA messages of a session in which the peer writes only frames.
MaxFrames == 8
\* Bytes of the longest payload looked at byte by byte.
MaxPayloadLen == 2
\* Calls of send_key_event the keyboard listener makes.
MaxKeys == 2
\* max_size the trace, via and text pools are constructed with.
TraceCap == 8
ViaCap == 2
TextCap == 4
\* max_size of the footprint pool
FootCap == 6
\* the largest index a caller passes to a pool's get()
MaxIndex == 17

\* ------------------------------------------------------ program constants
MSG_FRAME_DATA == 1
MSG_KEY_EVENT == 2
MSG_INIT_COMPLETE == 3
MSG_SHUTDOWN == 4
QueueMaxSize == 2
HUD_UPDATE_INTERVAL == 5
\* The values HUD_UPDATE_INTERVAL is given: redrawn on every frame, or the default.
HudIntervals == {1, HUD_UPDATE_INTERVAL}
DISTANCE_THRESHOLD == 100
TRACE_WIDTH_CLOSE == 300000
TRACE_WIDTH_FAR == 150000
TRACE_WIDTH_DEFAULT == 200000
EDGES_PER_WALL == 4
CATEGORY_COLLECTIBLE == 0
CATEGORY_DECORATION == 1
CATEGORY_ENEMY == 2
CATEGORY_UNKNOWN == 3
UnknownFallbacks == 5

None == "None"
Threads == {"main", "recv", "sup"}

VARIABLES
    \* DoomBridge fields
    running, connection, socket, thread, frames_received, receive_errors,
    \* operating-system objects behind the fields
    conn_open, sock_open, sockfile,
    \* DoomPCBRenderer fields
    frame_queue, frame_count, last_hud_update, pools,
    \* calls of pcbnew.Refresh() and frames handed to _process_frame, in order
    refresh_count, processed,
    \* what the last _process_frame call printed, and the used counts it passed
    \* to each pool's hide_unused, in order
    printed, hide_calls,
    \* config.py settings read at import: DEBUG_MODE (KIDOOM_DEBUG) and
    \* HUD_UPDATE_INTERVAL
    debug_mode, hud_interval,
    \* the peer: its position, the bytes it wrote that are not read yet, the
    \* number of messages it wrote, and the messages the bridge wrote to it
    peer_pc, peer_pending, inbox, nsent, outbox,
    \* positions of the threads
    mt_pc, rt_pc, stop_pc,
    \* locals of the receive thread: header just read, frame being queued,
    \* whether the first put_nowait of this render_frame call found the queue full
    \* and the outcome of its last socket read
    hdr, cur, rf_full, rd,
    \* the keyboard listener thread: its position in send_key_event and the
    \* number of calls it has made
    key_pc, nkeys,
    \* one connection seen at the level of bytes: the bytes written by the
    \* sender that recv has not returned yet, the messages they encode, the
    \* reader's position, the bytes _recv_exactly has collected, the header it
    \* unpacked and the messages it has decoded
    fr_stream, fr_msgs, fr_pc, fr_data, fr_hdr, fr_out,
    \* FootprintPool.footprints (the length of each category's list), and one
    \* caller of the pools' get(): its position, the pool, index and category
    \* it asks for, and what get() gave it
    footprints, pg_pc, pg_pool, pg_index, pg_category, pg_result,
    \* the footprints that are on the board, not off-screen (each named by its
    \* category and its position in that category's list), and a caller that
    \* places footprints of one category for a frame: its position, the
    \* category, and the number of footprints it has obtained
    fp_shown, fp_pc, fp_cat, fp_k

bridge_vars == <<running, connection, socket, thread, frames_received, receive_errors,
                 conn_open, sock_open, sockfile>>
render_vars == <<frame_count, last_hud_update, pools, refresh_count, processed, printed,
                 hide_calls>>
config_vars == <<debug_mode, hud_interval>>
peer_vars == <<peer_pc, peer_pending, inbox, nsent, outbox>>
recv_locals == <<hdr, cur, rf_full, rd>>
program_vars == <<running, connection, socket, thread, frames_received, receive_errors,
                  conn_open, sock_open, sockfile,
                  frame_queue, frame_count, last_hud_update, pools, refresh_count,
                  processed, printed, hide_calls, debug_mode, hud_interval, peer_pc, peer_pending, inbox, nsent, outbox,
                  mt_pc, rt_pc, stop_pc, hdr, cur, rf_full, rd>>
key_vars == <<key_pc, nkeys>>
frame_vars == <<fr_stream, fr_msgs, fr_pc, fr_data, fr_hdr, fr_out>>
pool_vars == <<footprints, pg_pc, pg_pool, pg_index, pg_category, pg_result,
               fp_shown, fp_pc, fp_cat, fp_k>>
marker_vars == <<fp_shown, fp_pc, fp_cat, fp_k>>
aux_vars == <<key_pc, nkeys, fr_stream, fr_msgs, fr_pc, fr_data, fr_hdr, fr_out,
              debug_mode, hud_interval,
              footprints, pg_pc, pg_pool, pg_index, pg_category, pg_result,
              fp_shown, fp_pc, fp_cat, fp_k>>
vars == <<running, connection, socket, thread, frames_received, receive_errors,
          conn_open, sock_open, sockfile,
          frame_queue, frame_count, last_hud_update, pools, refresh_count, processed,
          printed, hide_calls, debug_mode, hud_interval,
          peer_pc, peer_pending, inbox, nsent, outbox,
          mt_pc, rt_pc, stop_pc, hdr, cur, rf_full, rd,
          key_pc, nkeys, fr_stream, fr_msgs, fr_pc, fr_data, fr_hdr, fr_out,
          footprints, pg_pc, pg_pool, pg_index, pg_category, pg_result,
          fp_shown, fp_pc, fp_cat, fp_k>>

\* ------------------------------------------------------------ object pools
OffScreen == <<-1000000000, -1000000000>>

\* TracePool.__init__: every track starts with the default width on F.Cu, at (0,0).
TracePoolInit == [i \in 0..(TraceCap - 1) |->
                    [width |-> TRACE_WIDTH_DEFAULT, layer |-> "F_Cu", geom |-> <<<<0, "origin", 0>>, 0>>]]

\* ViaPool.__init__: every via starts off-screen.
ViaPoolInit == [i \in 0..(ViaCap - 1) |-> [pos |-> OffScreen]]

\* TextPool.__init__: every text starts empty and off-screen.
TextPoolInit == [i \in 0..(TextCap - 1) |-> [text |-> "", pos |-> OffScreen]]

\* create_all_pools (the footprint pool is not used by _process_frame).
create_all_pools == [traces |-> TracePoolInit, vias |-> ViaPoolInit, text |-> TextPoolInit]

\* (mutant) a pool that removes the tracks a frame does not use
TraceDropUnused(tr, used_count) == [i \in {j \in DOMAIN tr : j < used_count} |-> tr[i]]

\* TracePool.hide_unused: width 0 for every slot from used_count on.
TraceHideUnused(tr, used_count) ==
    [i \in DOMAIN tr |-> IF i >= used_count THEN [tr[i] EXCEPT !.width = 0] ELSE tr[i]]

\* ViaPool.hide_unused
ViaHideUnused(vs, used_count) ==
    [i \in DOMAIN vs |-> IF i >= used_count THEN [vs[i] EXCEPT !.pos = OffScreen] ELSE vs[i]]

\* TextPool.hide_unused
TextHideUnused(ts, used_count) ==
    [i \in DOMAIN ts |-> IF i >= used_count THEN [text |-> "", pos |-> OffScreen] ELSE ts[i]]

\* (mutant) an index used as it is
NoWrapIndex(index, max_size) == index

\* ViaPool.get / TextPool.get: the index wraps modulo max_size.
WrapIndex(index, max_size) == IF index >= max_size THEN index % max_size ELSE index

\* (mutant) a line-segment pool that wraps like the other pools
TracePoolGetWrapping(index) == [error |-> "none", slot |-> index % TraceCap]

\* TracePool.get(index) for index >= 0: the slot at that position, or
\* IndexError when index >= max_size. A slot is named by its position in the
\* pool's list; the pool itself is not touched.
TracePoolGet(index) ==
    IF index >= TraceCap THEN [error |-> "IndexError", slot |-> index]
    ELSE [error |-> "none", slot |-> index]

\* ViaPool.get(index) for index >= 0
ViaPoolGet(index) == [error |-> "none", slot |-> WrapIndex(index, ViaCap)]

\* TextPool.get(index) for index >= 0
TextPoolGet(index) == [error |-> "none", slot |-> WrapIndex(index, TextCap)]

\* The categories FootprintPool keeps a list for (FOOTPRINT_SPECS).
Categories == {CATEGORY_COLLECTIBLE, CATEGORY_DECORATION, CATEGORY_ENEMY, CATEGORY_UNKNOWN}

\* instances_per_category of FootprintPool.__init__
InstancesPerCategory(max_size) ==
    (CATEGORY_COLLECTIBLE :> max_size \div 3) @@ (CATEGORY_DECORATION :> max_size \div 6)
      @@ (CATEGORY_ENEMY :> max_size \div 2) @@ (CATEGORY_UNKNOWN :> UnknownFallbacks)

\* FootprintPool.__init__: the length of each category's list. A category
\* whose footprint loads (it is in loaded) gets all its instances and one whose
\* footprint does not load gets none; when the footprint library is not found
\* no category loads.
FootprintPoolInit(max_size, loaded) ==
    [c \in Categories |-> IF c \in loaded THEN InstancesPerCategory(max_size)[c] ELSE 0]

\* (mutant) a get that indexes the dictionary with the category it is given
FootprintPoolGetStrict(fp, index, category) ==
    IF category \notin DOMAIN fp
    THEN [error |-> "KeyError", none |-> FALSE, category |-> category, slot |-> index]
    ELSE IF fp[category] = 0
    THEN [error |-> "none", none |-> TRUE, category |-> category, slot |-> index]
    ELSE [error |-> "none", none |-> FALSE, category |-> category, slot |-> index % fp[category]]

\* FootprintPool.get(index, category) for index >= 0: the list of the
\* category, or of CATEGORY_UNKNOWN when the category has no list; None when
\* that list is empty, else its element at index modulo its length. A slot is
\* named by its category's list and its position there.
FootprintPoolGet(fp, index, category) ==
    LET cat == IF category \notin DOMAIN fp THEN CATEGORY_UNKNOWN ELSE category
        pool == fp[cat]
    IN IF pool = 0
       THEN [error |-> "none", none |-> TRUE, category |-> cat, slot |-> index]
       ELSE [error |-> "none", none |-> FALSE, category |-> cat, slot |-> index % pool]

\* The number of footprints in the lists hide_unused walks through before it
\* comes to the list of category c: the dictionary keeps the order of
\* FOOTPRINT_SPECS, which is the order of the category numbers.
RECURSIVE CountBefore(_, _)
CountBefore(fp, c) == IF c = CATEGORY_COLLECTIBLE THEN 0 ELSE fp[c - 1] + CountBefore(fp, c - 1)

\* FootprintPool.hide_unused(used_count) on the set of footprints that are on
\* the board: one counter runs over all the lists, and every footprint it
\* numbers used_count or more is moved off-screen; the others stay where they
\* are.
FootprintHideUnused(fp, shown, used_count) ==
    {m \in shown : CountBefore(fp, m[1]) + m[2] < used_count}

\* ---------------------------------------------------------------- renderer
\* The lines _process_frame can print that the claims speak of.
TracePoolExhausted == "WARNING: Trace pool exhausted"
FrameRenderingFailed == "ERROR: Frame rendering failed"

\* No hide_unused call has been made.
NoHides == [traces |-> <<>>, vias |-> <<>>, text |-> <<>>]

\* (mutant) a renderer that never looks at the capacity of the pool
TracePoolNeverFull(trace_index) == FALSE

\* The capacity check of the edge loops: trace_index >= len(trace_pool.objects)
TracePoolFull(trace_index) == trace_index >= TraceCap

\* A line printed only under DEBUG_MODE
DebugPrint(line) == IF debug_mode THEN {line} ELSE {}

\* The four edges loop of _render_walls / _render_entities: one pool slot per
\* edge, until the pool is exhausted (the capacity check prints its warning in
\* debug mode and breaks the loop). An IndexError of TracePool.get leaves the
\* loop at once.
RECURSIVE RenderEdges(_, _, _, _, _, _)
RenderEdges(tr, trace_index, e, width, layer, tag) ==
    IF e > EDGES_PER_WALL
    THEN [tr |-> tr, idx |-> trace_index, printed |-> {}, raised |-> FALSE]
    ELSE IF TracePoolFull(trace_index)
    THEN [tr |-> tr, idx |-> trace_index, printed |-> DebugPrint(TracePoolExhausted),
          raised |-> FALSE]
    ELSE LET trace == TracePoolGet(trace_index)
         IN IF trace.error # "none"
            THEN [tr |-> tr, idx |-> trace_index, printed |-> {}, raised |-> TRUE]
            ELSE RenderEdges([tr EXCEPT ![trace.slot] =
                                 [width |-> width, layer |-> layer, geom |-> <<tag, e>>]],
                             trace_index + 1, e + 1, width, layer, tag)

\* (mutant) a depth shading that takes a wall at the threshold for near
WallStyleNearAtThreshold(distance) ==
    IF distance <= DISTANCE_THRESHOLD
    THEN [width |-> TRACE_WIDTH_CLOSE, layer |-> "F_Cu"]
    ELSE [width |-> TRACE_WIDTH_FAR, layer |-> "B_Cu"]

\* The style of a wall's edges: F.Cu and the thick width when the wall is
\* nearer than DISTANCE_THRESHOLD, B.Cu and the thin width otherwise.
WallStyle(distance) ==
    IF distance < DISTANCE_THRESHOLD
    THEN [width |-> TRACE_WIDTH_CLOSE, layer |-> "F_Cu"]
    ELSE [width |-> TRACE_WIDTH_FAR, layer |-> "B_Cu"]

\* The style of an entity's edges: always F.Cu and the thick width; the
\* entity's distance is read and not used.
EntityStyle(distance) == [width |-> TRACE_WIDTH_CLOSE, layer |-> "F_Cu"]

\* (mutant) a wall loop that draws portals like any other wall
SkipShortWallOnly(wall) == wall.n < 8

\* The walls _render_walls passes over: fewer than eight fields, or a portal
\* (silhouette 0).
SkipWall(wall) == wall.n < 8 \/ wall.silhouette = 0

\* DoomPCBRenderer._render_walls, from wall number w on.
RECURSIVE RenderWalls(_, _, _, _, _)
RenderWalls(tr, walls, w, trace_index, fid) ==
    IF w > Len(walls)
    THEN [tr |-> tr, idx |-> trace_index, printed |-> {}, raised |-> FALSE]
    ELSE IF SkipWall(walls[w])
         THEN RenderWalls(tr, walls, w + 1, trace_index, fid)
    ELSE LET style == WallStyle(walls[w].distance)
             r == RenderEdges(tr, trace_index, 1, style.width, style.layer,
                              <<fid, "wall", w>>)
         IN IF r.raised THEN r
            ELSE LET rest == RenderWalls(r.tr, walls, w + 1, r.idx, fid)
                 IN [rest EXCEPT !.printed = r.printed \cup rest.printed]

\* DoomPCBRenderer._render_entities, from entity number k on; idx is the pool
\* index reached (start_index at first), the count is idx - start_index.
RECURSIVE RenderEntities(_, _, _, _, _)
RenderEntities(tr, entities, k, trace_index, fid) ==
    IF k > Len(entities)
    THEN [tr |-> tr, idx |-> trace_index, printed |-> {}, raised |-> FALSE]
    ELSE IF ~entities[k].isdict
         THEN RenderEntities(tr, entities, k + 1, trace_index, fid)
    ELSE LET style == EntityStyle(entities[k].distance)
             r == RenderEdges(tr, trace_index, 1, style.width, style.layer,
                              <<fid, "entity", k>>)
         IN IF r.raised THEN r
            ELSE LET rest == RenderEntities(r.tr, entities, k + 1, r.idx, fid)
                 IN [rest EXCEPT !.printed = r.printed \cup rest.printed]

\* DoomPCBRenderer._render_projectiles: the loop, then hide_unused(via_index).
RECURSIVE RenderProjectileLoop(_, _, _, _, _)
RenderProjectileLoop(vs, projectiles, p, via_index, fid) ==
    IF p > Len(projectiles) THEN [vs |-> vs, idx |-> via_index]
    ELSE IF projectiles[p].n < 2
         THEN RenderProjectileLoop(vs, projectiles, p + 1, via_index, fid)
    ELSE RenderProjectileLoop(
             [vs EXCEPT ![ViaPoolGet(via_index).slot] = [pos |-> <<fid, p>>]],
             projectiles, p + 1, via_index + 1, fid)

RenderProjectiles(vs, projectiles, fid) ==
    LET r == RenderProjectileLoop(vs, projectiles, 1, 0, fid)
    IN ViaHideUnused(r.vs, r.idx)

\* The hud_elements list of _render_hud: health, ammo, armor, and keys if any.
HudElements(hud) ==
    <<"HEALTH", "AMMO", "ARMOR">> \o (IF hud.keys THEN <<"KEYS">> ELSE <<>>)

RECURSIVE RenderHudLoop(_, _, _, _)
RenderHudLoop(ts, elems, text_index, fid) ==
    IF text_index >= Len(elems) THEN ts
    ELSE RenderHudLoop(
             [ts EXCEPT ![TextPoolGet(text_index).slot] =
                 [text |-> elems[text_index + 1], pos |-> <<fid, text_index>>]],
             elems, text_index + 1, fid)

\* DoomPCBRenderer._render_hud
RenderHud(ts, hud, fid) ==
    TextHideUnused(RenderHudLoop(ts, HudElements(hud), 0, fid), Len(HudElements(hud)))

\* (mutant) a renderer that draws the HUD on every frame
HudAlwaysDue(r) == TRUE

\* The throttle of _process_frame: the HUD is drawn when at least
\* HUD_UPDATE_INTERVAL counted frames have passed since it was last drawn.
HudDue(r) == r.frame_count - r.last_hud_update >= hud_interval

\* (mutant) an except clause placed after the statistics update: the aborted
\* frame is counted
FrameAbortCounted(r, tr, lines) ==
    [pools |-> [r.pools EXCEPT !.traces = tr],
     frame_count |-> r.frame_count + 1,
     last_hud_update |-> r.last_hud_update,
     printed |-> lines \cup {FrameRenderingFailed},
     hide_calls |-> NoHides]

\* The except clause of _process_frame: print the error and return. What was
\* drawn before the exception stays (tr), frame_count is not reached.
FrameAbort(r, tr, lines) ==
    [pools |-> [r.pools EXCEPT !.traces = tr],
     frame_count |-> r.frame_count,
     last_hud_update |-> r.last_hud_update,
     printed |-> lines \cup {FrameRenderingFailed},
     hide_calls |-> NoHides]

\* (mutant) an entity pass that starts at the first slot of the pool, like the
\* wall pass
EntityStartIndexZero(wall_trace_count) == 0

\* start_index of _render_entities: _process_frame passes wall_trace_count, so
\* the entities' edges follow the walls' in the one line-segment pool.
EntityStartIndex(wall_trace_count) == wall_trace_count

\* DoomPCBRenderer._process_frame on renderer state r = [pools, frame_count,
\* last_hud_update]; printed is what the call prints and hide_calls the used
\* counts it passes to hide_unused of each pool. A frame whose walls
\* entry cannot be iterated raises inside the try block before anything is
\* drawn, and so does an IndexError of the pool: the except clause prints the
\* error and returns, nothing is hidden and nothing counted.
ProcessFrame(r, frame) ==
    IF ~frame.iterable
    THEN FrameAbort(r, r.pools.traces, {})
    ELSE LET w == RenderWalls(r.pools.traces, frame.walls, 1, 0, frame.id)
             wall_trace_count == w.idx
             start_index == EntityStartIndex(wall_trace_count)
             e == IF w.raised THEN w
                  ELSE RenderEntities(w.tr, frame.entities, 1, start_index, frame.id)
             entity_trace_count == e.idx - start_index
             tr == TraceHideUnused(e.tr, wall_trace_count + entity_trace_count)
             vs == RenderProjectiles(r.pools.vias, frame.projectiles, frame.id)
             via_index == RenderProjectileLoop(r.pools.vias, frame.projectiles, 1, 0,
                                               frame.id).idx
             doHud == HudDue(r)
             ts == IF doHud THEN RenderHud(r.pools.text, frame.hud, frame.id)
                   ELSE r.pools.text
         IN IF w.raised \/ e.raised
            THEN FrameAbort(r, e.tr, w.printed \cup e.printed)
            ELSE [pools |-> [traces |-> tr, vias |-> vs, text |-> ts],
                  frame_count |-> r.frame_count + 1,
                  last_hud_update |-> IF doHud THEN r.frame_count ELSE r.last_hud_update,
                  printed |-> w.printed \cup e.printed,
                  hide_calls |->
                      [traces |-> <<wall_trace_count + entity_trace_count>>,
                       vias |-> <<via_index>>,
                       text |-> IF doHud THEN <<Len(HudElements(frame.hud))>> ELSE <<>>]]

\* ------------------------------------------------------------------ frames
\* The frame document the peer writes as its n-th message. Shapes vary with n:
\* one to three walls (the second a portal, the third far, or exactly at the
\* distance threshold in frame 8), an entity on odd frames (near in frames
\* 1 and 5, far in frames 3 and 7), up to three
\* projectiles; the walls entry of every third frame is not a list.
FrameData(n) ==
    [id |-> n,
     iterable |-> n % 3 # 0,
     walls |-> [w \in 1..((n % 3) + 1) |->
                  [n |-> 8,
                   distance |-> IF w = 3
                                THEN (IF n = 8 THEN DISTANCE_THRESHOLD ELSE 150)
                                ELSE 50,
                   silhouette |-> IF w = 2 THEN 0 ELSE 1]],
     entities |-> [k \in 1..(n % 2) |->
                     [isdict |-> TRUE, distance |-> IF n % 4 = 1 THEN 50 ELSE 150]],
     projectiles |-> [p \in 1..(n % 4) |-> [n |-> 2]],
     hud |-> [keys |-> n % 2 = 0]]

\* ------------------------------------------------------------------- state
\* No key has been pressed.
KeyInit == key_pc = "idle" /\ nkeys = 0

\* No bytes are looked at.
FrameIdle ==
    /\ fr_stream = <<>> /\ fr_msgs = <<>> /\ fr_pc = "off"
    /\ fr_data = <<>> /\ fr_hdr = <<0, 0>> /\ fr_out = <<>>

\* No call of a pool's get() is looked at; every footprint has loaded.
NoResult == [error |-> "pending"]
PoolIdle ==
    /\ footprints = FootprintPoolInit(FootCap, Categories)
    /\ pg_pc = "off" /\ pg_pool = "traces" /\ pg_index = 0
    /\ pg_category = CATEGORY_UNKNOWN /\ pg_result = NoResult
    /\ fp_shown = {} /\ fp_pc = "off" /\ fp_cat = CATEGORY_UNKNOWN /\ fp_k = 0

\* DoomBridge.__init__ and DoomPCBRenderer.__init__; no socket file is left from
\* an earlier session and the peer has not connected.
ProgramInit ==
    /\ running = FALSE /\ connection = None /\ socket = None /\ thread = None
    /\ frames_received = 0 /\ receive_errors = 0
    /\ conn_open = FALSE /\ sock_open = FALSE /\ sockfile = FALSE
    /\ frame_queue = <<>> /\ frame_count = 0 /\ last_hud_update = 0
    /\ pools = create_all_pools
    /\ refresh_count = 0 /\ processed = <<>> /\ printed = {} /\ hide_calls = NoHides
    /\ debug_mode = FALSE /\ hud_interval = HUD_UPDATE_INTERVAL
    /\ peer_pc = "idle" /\ peer_pending = "none"
    /\ inbox = <<>> /\ nsent = 0 /\ outbox = <<>>
    /\ mt_pc = "created" /\ rt_pc = "not_started"
    /\ stop_pc = [t \in Threads |-> "none"]
    /\ hdr = [type |-> 0, len |-> 0] /\ cur = FrameData(0) /\ rf_full = FALSE
    /\ rd = "none"

Init == ProgramInit /\ KeyInit /\ FrameIdle /\ PoolIdle

\* ------------------------------------------------------- refresh timer tick
\* (mutant) a queue that hands out its newest element first
QueueGetNewest(q) == [item |-> q[Len(q)], rest |-> SubSeq(q, 1, Len(q) - 1)]

\* queue.Queue.get_nowait: the oldest element.
QueueGet(q) == [item |-> Head(q), rest |-> Tail(q)]

\* The wx timer event is delivered on the main thread when that thread is in
\* its event loop: not inside start() and not inside a stop() it called.
TimerCanTick ==
    /\ mt_pc \in {"created", "started", "start_raised"}
    /\ stop_pc["main"] = "none"

\* (mutant) a timer callback that refreshes the display on every tick, also
\* when the queue was empty
OnRefreshTimerAlwaysRefresh ==
    /\ TimerCanTick
    /\ IF frame_queue # <<>>
       THEN LET got == QueueGet(frame_queue)
                r == ProcessFrame([pools |-> pools, frame_count |-> frame_count,
                                   last_hud_update |-> last_hud_update], got.item)
            IN /\ frame_queue' = got.rest
               /\ processed' = Append(processed, got.item.id)
               /\ pools' = r.pools
               /\ frame_count' = r.frame_count
               /\ last_hud_update' = r.last_hud_update
               /\ printed' = r.printed
               /\ hide_calls' = r.hide_calls
       ELSE UNCHANGED <<frame_queue, processed, pools, frame_count, last_hud_update,
                        printed, hide_calls>>
    /\ refresh_count' = refresh_count + 1
    /\ UNCHANGED <<bridge_vars, peer_vars, mt_pc, rt_pc, stop_pc, recv_locals,
                   aux_vars>>

\* DoomPCBRenderer._on_refresh_timer, on the main thread between its other
\* work: pop one frame if there is one, process it, refresh once; queue.Empty
\* is swallowed and nothing happens.
OnRefreshTimer ==
    /\ TimerCanTick
    /\ IF frame_queue # <<>>
       THEN LET got == QueueGet(frame_queue)
                frame_data == got.item
                r == ProcessFrame([pools |-> pools, frame_count |-> frame_count,
                                   last_hud_update |-> last_hud_update], frame_data)
            IN /\ frame_queue' = got.rest
               /\ processed' = Append(processed, frame_data.id)
               /\ pools' = r.pools
               /\ frame_count' = r.frame_count
               /\ last_hud_update' = r.last_hud_update
               /\ printed' = r.printed
               /\ hide_calls' = r.hide_calls
               /\ refresh_count' = refresh_count + 1
       ELSE UNCHANGED <<frame_queue, render_vars>>
    /\ UNCHANGED <<bridge_vars, peer_vars, mt_pc, rt_pc, stop_pc, recv_locals,
                   aux_vars>>

\* ------------------------------------------------------------ render_frame
\* DoomPCBRenderer.render_frame, called by the receive thread with cur; each
\* queue operation is one step (the queue's lock makes it atomic). The call
\* returns to _receive_loop, which has not counted the frame yet.
RenderFrameReturn ==
    /\ rt_pc' = "rf_return"
    /\ UNCHANGED frames_received

\* (mutant) a render_frame that maps the frame onto the pools and refreshes
\* in the calling thread instead of queueing it
RenderFrameDirect ==
    /\ rt_pc = "rf_put"
    /\ LET r == ProcessFrame([pools |-> pools, frame_count |-> frame_count,
                              last_hud_update |-> last_hud_update], cur)
       IN /\ pools' = r.pools
          /\ frame_count' = r.frame_count
          /\ last_hud_update' = r.last_hud_update
          /\ printed' = r.printed
          /\ hide_calls' = r.hide_calls
    /\ refresh_count' = refresh_count + 1
    /\ RenderFrameReturn
    /\ UNCHANGED <<running, connection, socket, thread, receive_errors, conn_open,
                   sock_open, sockfile, frame_queue, processed, peer_vars, mt_pc,
                   stop_pc, recv_locals,
                   aux_vars>>

\* (mutant) a render_frame that uses the blocking put(): with the queue full
\* the receive thread waits for the timer to make room
RenderFramePutBlocking ==
    /\ rt_pc = "rf_put"
    /\ Len(frame_queue) < QueueMaxSize
    /\ frame_queue' = Append(frame_queue, cur)
    /\ rf_full' = FALSE
    /\ RenderFrameReturn
    /\ UNCHANGED <<running, connection, socket, thread, receive_errors, conn_open,
                   sock_open, sockfile, render_vars, peer_vars, mt_pc, stop_pc, hdr, cur, rd,
                   aux_vars>>

\* first put_nowait: queue.Full leads to the drop-oldest branch
RenderFramePut ==
    /\ rt_pc = "rf_put"
    /\ IF Len(frame_queue) < QueueMaxSize
       THEN /\ frame_queue' = Append(frame_queue, cur)
            /\ rf_full' = FALSE
            /\ RenderFrameReturn
       ELSE /\ rf_full' = TRUE
            /\ rt_pc' = "rf_get"
            /\ UNCHANGED <<frame_queue, frames_received>>
    /\ UNCHANGED <<running, connection, socket, thread, receive_errors, conn_open,
                   sock_open, sockfile, render_vars, peer_vars, mt_pc, stop_pc, hdr, cur, rd,
                   aux_vars>>

\* get_nowait of the oldest frame; queue.Empty (the timer emptied the queue
\* meanwhile) is swallowed by the bare except and the frame is skipped
RenderFrameGet ==
    /\ rt_pc = "rf_get"
    /\ IF frame_queue # <<>>
       THEN /\ frame_queue' = QueueGet(frame_queue).rest
            /\ rt_pc' = "rf_put2"
            /\ UNCHANGED frames_received
       ELSE /\ UNCHANGED frame_queue
            /\ RenderFrameReturn
    /\ UNCHANGED <<running, connection, socket, thread, receive_errors, conn_open,
                   sock_open, sockfile, render_vars, peer_vars, mt_pc, stop_pc, recv_locals,
                   aux_vars>>

\* second put_nowait, after the oldest frame was removed
RenderFramePut2 ==
    /\ rt_pc = "rf_put2"
    /\ frame_queue' = IF Len(frame_queue) < QueueMaxSize
                      THEN Append(frame_queue, cur) ELSE frame_queue
    /\ RenderFrameReturn
    /\ UNCHANGED <<running, connection, socket, thread, receive_errors, conn_open,
                   sock_open, sockfile, render_vars, peer_vars, mt_pc, stop_pc, recv_locals,
                   aux_vars>>

\* self.frames_received += 1 (and the receive time), after render_frame has
\* returned; then the loop goes to its top. The timer may tick before this
\* step.
FrameReceived ==
    /\ rt_pc = "rf_return"
    /\ frames_received' = frames_received + 1
    /\ rt_pc' = "loop_top"
    /\ UNCHANGED <<running, connection, socket, thread, receive_errors, conn_open,
                   sock_open, sockfile, frame_queue, render_vars, peer_vars, mt_pc, stop_pc,
                   recv_locals, aux_vars>>

\* ------------------------------------------------------------ receive loop
\* (mutant) a loop exit after which the thread just returns, without stop()
LoopBreakWithoutStop ==
    /\ rt_pc' = "returned"
    /\ UNCHANGED stop_pc

\* Leaving the while loop of _receive_loop: the thread calls self.stop().
LoopBreak ==
    /\ rt_pc' = "in_stop"
    /\ stop_pc' = [stop_pc EXCEPT !["recv"] = "check"]

\* The outcome of one _recv_exactly call that waits for chunk kind k:
\*   "error"   self.connection is None or closed by stop(): recv raises
\*   "data"    the bytes are there
\*   "closed"  the peer closed and nothing is left to read: recv returns b''
\*   "timeout" nothing arrived within SOCKET_RECV_TIMEOUT: recv raises socket.timeout
ReadOutcomes(k) ==
    IF connection = None \/ ~conn_open THEN {"error"}
    ELSE IF inbox # <<>> /\ Head(inbox).k = k THEN {"data"}
    ELSE IF peer_pc = "closed" THEN {"closed"}
    ELSE {"timeout"}

\* DoomBridge._recv_exactly: every exception of recv, socket.timeout included,
\* is caught and None is returned, as for a closed connection.
RecvExactlyReturnsData(outcome) == outcome = "data"

\* while self.running:
LoopTop ==
    /\ rt_pc = "loop_top"
    /\ IF running
       THEN rt_pc' = "settimeout" /\ UNCHANGED stop_pc
       ELSE LoopBreak
    /\ UNCHANGED <<bridge_vars, frame_queue, render_vars, peer_vars, mt_pc, recv_locals,
                   aux_vars>>

\* self.connection.settimeout(...): with connection None (stop() ran) this is an
\* AttributeError, caught by the loop's except Exception: counted, break.
SetTimeout ==
    /\ rt_pc = "settimeout"
    /\ IF connection = None
       THEN /\ receive_errors' = receive_errors + 1
            /\ LoopBreak
       ELSE /\ rt_pc' = "recv_header"
            /\ UNCHANGED <<receive_errors, stop_pc>>
    /\ UNCHANGED <<running, connection, socket, thread, frames_received, conn_open,
                   sock_open, sockfile, frame_queue, render_vars, peer_vars, mt_pc, recv_locals,
                   aux_vars>>

\* header = self._recv_exactly(8); if not header: break
RecvHeader ==
    /\ rt_pc = "recv_header"
    /\ \E outcome \in ReadOutcomes("hdr") :
         /\ rd' = outcome
         /\ IF RecvExactlyReturnsData(outcome)
            THEN /\ hdr' = [type |-> Head(inbox).type, len |-> Head(inbox).len]
                 /\ inbox' = Tail(inbox)
                 /\ rt_pc' = "recv_payload"
                 /\ UNCHANGED stop_pc
            ELSE /\ LoopBreak
                 /\ UNCHANGED <<hdr, inbox>>
    /\ UNCHANGED <<bridge_vars, frame_queue, render_vars, peer_pc, peer_pending, nsent,
                   outbox, mt_pc, cur, rf_full,
                   aux_vars>>

\* json.loads(payload.decode('utf-8')) of a payload of class cls:
\*   "json" parses; "badjson" raises json.JSONDecodeError (caught next to the
\*   call: counted, continue); "badutf8" raises UnicodeDecodeError, which only
\*   the loop's except Exception catches (counted, break).
ParseResult(cls) ==
    CASE cls = "json" -> "ok"
      [] cls = "badjson" -> "continue"
      [] OTHER -> "break"

\* payload = self._recv_exactly(payload_len); if not payload: break; parse and
\* dispatch by message type. A zero payload_len gives b'' without any read.
RecvPayload ==
    /\ rt_pc = "recv_payload"
    /\ \E outcome \in (IF hdr.len = 0 THEN {"empty"} ELSE ReadOutcomes("pay")) :
         /\ rd' = outcome
         /\ IF RecvExactlyReturnsData(outcome)
            THEN LET chunk == Head(inbox)
                     res == ParseResult(chunk.cls)
                 IN /\ inbox' = Tail(inbox)
                    /\ CASE res = "break" ->
                              /\ receive_errors' = receive_errors + 1
                              /\ LoopBreak
                              /\ UNCHANGED <<running, cur>>
                         [] res = "continue" ->
                              /\ receive_errors' = receive_errors + 1
                              /\ rt_pc' = "loop_top"
                              /\ UNCHANGED <<running, cur, stop_pc>>
                         [] res = "ok" /\ hdr.type = MSG_FRAME_DATA ->
                              /\ cur' = FrameData(chunk.id)
                              /\ rt_pc' = "rf_put"
                              /\ UNCHANGED <<running, receive_errors, stop_pc>>
                         [] res = "ok" /\ hdr.type = MSG_SHUTDOWN ->
                              /\ running' = FALSE
                              /\ LoopBreak
                              /\ UNCHANGED <<receive_errors, cur>>
                         [] OTHER ->
                              /\ rt_pc' = "loop_top"
                              /\ UNCHANGED <<running, receive_errors, cur, stop_pc>>
            ELSE /\ LoopBreak
                 /\ UNCHANGED <<running, receive_errors, cur, inbox>>
    /\ UNCHANGED <<connection, socket, thread, frames_received, conn_open, sock_open,
                   sockfile, frame_queue, render_vars, peer_pc, peer_pending, nsent,
                   outbox, mt_pc, hdr, rf_full,
                   aux_vars>>

\* -------------------------------------------------------------------- stop
\* What happens to thread t when its stop() call ends: the receive thread's
\* _receive_loop returns (or dies of the exception stop() raised); the main
\* thread is inside start(), which re-raises; the supervisor goes on.
StopEnds(t, raised) ==
    /\ stop_pc' = [stop_pc EXCEPT ![t] = "none"]
    /\ rt_pc' = IF t = "recv" THEN (IF raised THEN "raised" ELSE "returned") ELSE rt_pc
    /\ mt_pc' = IF t = "main" THEN "start_raised" ELSE mt_pc

\* (mutant) a stop() whose early return looks at the running flag alone
StopCheckRunningOnly(t) ==
    /\ stop_pc[t] = "check"
    /\ IF ~running
       THEN StopEnds(t, FALSE) /\ UNCHANGED running
       ELSE /\ running' = FALSE
            /\ stop_pc' = [stop_pc EXCEPT ![t] = "send"]
            /\ UNCHANGED <<rt_pc, mt_pc>>
    /\ UNCHANGED <<connection, socket, thread, frames_received, receive_errors,
                   conn_open, sock_open, sockfile, frame_queue, render_vars,
                   peer_vars, recv_locals,
                   aux_vars>>

\* if not self.running and not self.connection: return;  self.running = False
StopCheck(t) ==
    /\ stop_pc[t] = "check"
    /\ IF ~running /\ connection = None
       THEN StopEnds(t, FALSE) /\ UNCHANGED running
       ELSE /\ running' = FALSE
            /\ stop_pc' = [stop_pc EXCEPT ![t] = "send"]
            /\ UNCHANGED <<rt_pc, mt_pc>>
    /\ UNCHANGED <<connection, socket, thread, frames_received, receive_errors,
                   conn_open, sock_open, sockfile, frame_queue, render_vars,
                   peer_vars, recv_locals,
                   aux_vars>>

\* What the peer's end of the connection is handed by one send(): the bytes of
\* a whole message (header and payload), or a first or a last part of them.
Whole(msg_type) == [type |-> msg_type, part |-> "whole"]
FirstPart(msg_type) == [type |-> msg_type, part |-> "head"]
LastPart(msg_type) == [type |-> msg_type, part |-> "tail"]

\* DoomBridge._send_message reaching the peer: sendall succeeds on an open
\* connection whose peer has not closed; otherwise it raises.
SendSucceeds == connection # None /\ conn_open /\ peer_pc # "closed"

\* if self.connection: try: self._send_message(MSG_SHUTDOWN, {}) except: pass
StopSend(t) ==
    /\ stop_pc[t] = "send"
    /\ outbox' = IF SendSucceeds THEN Append(outbox, Whole(MSG_SHUTDOWN)) ELSE outbox
    /\ stop_pc' = [stop_pc EXCEPT ![t] = "close_conn"]
    /\ UNCHANGED <<bridge_vars, frame_queue, render_vars, peer_pc, peer_pending, inbox,
                   nsent, mt_pc, rt_pc, recv_locals,
                   aux_vars>>

\* if self.connection: close it (errors ignored); self.connection = None.
\* Closing discards the bytes that were not read.
StopCloseConnection(t) ==
    /\ stop_pc[t] = "close_conn"
    /\ IF connection # None
       THEN conn_open' = FALSE /\ connection' = None /\ inbox' = <<>>
       ELSE UNCHANGED <<conn_open, connection, inbox>>
    /\ stop_pc' = [stop_pc EXCEPT ![t] = "close_sock"]
    /\ UNCHANGED <<running, socket, thread, frames_received, receive_errors, sock_open,
                   sockfile, frame_queue, render_vars, peer_pc, peer_pending, nsent,
                   outbox, mt_pc, rt_pc, recv_locals,
                   aux_vars>>

\* if self.socket: close it; self.socket = None;  os.unlink(SOCKET_PATH)
StopCloseSocket(t) ==
    /\ stop_pc[t] = "close_sock"
    /\ IF socket # None
       THEN sock_open' = FALSE /\ socket' = None
       ELSE UNCHANGED <<sock_open, socket>>
    /\ sockfile' = FALSE
    /\ stop_pc' = [stop_pc EXCEPT ![t] = "join"]
    /\ UNCHANGED <<running, connection, thread, frames_received, receive_errors,
                   conn_open, frame_queue, render_vars, peer_vars, mt_pc, rt_pc, recv_locals,
                   aux_vars>>

\* threading.Thread.is_alive of the receive thread
ThreadIsAlive == rt_pc \notin {"not_started", "returned", "raised"}

\* threading.Thread.join(timeout) called by thread t on the receive thread:
\* RuntimeError("cannot join current thread") when t is that thread;
\* otherwise it returns, when the thread ended or after the timeout.
JoinRaises(t) == t = "recv"

\* if self.thread and self.thread.is_alive(): self.thread.join(timeout=2.0)
StopJoin(t) ==
    /\ stop_pc[t] = "join"
    /\ StopEnds(t, thread # None /\ ThreadIsAlive /\ JoinRaises(t))
    /\ UNCHANGED <<bridge_vars, frame_queue, render_vars, peer_vars,
                   recv_locals,
                   aux_vars>>

\* DoomBridge.stop, one step of the call thread t is in
Stop(t) ==
    \/ StopCheck(t)
    \/ StopSend(t)
    \/ StopCloseConnection(t)
    \/ StopCloseSocket(t)
    \/ StopJoin(t)

\* The supervisor thread calls bridge.stop() (doom_plugin_action._cleanup); it
\* does so between sessions or once start() has returned or raised.
SupervisorCallsStop ==
    /\ stop_pc["sup"] = "none"
    /\ mt_pc \in {"created", "started", "start_raised"}
    /\ stop_pc' = [stop_pc EXCEPT !["sup"] = "check"]
    /\ UNCHANGED <<bridge_vars, frame_queue, render_vars, peer_vars, mt_pc, rt_pc,
                   recv_locals,
                   aux_vars>>

\* ------------------------------------------------------------------- start
\* main thread calls self.stop() inside start(); start() re-raises afterwards
StartCallsStop ==
    /\ mt_pc' = "in_stop"
    /\ stop_pc' = [stop_pc EXCEPT !["main"] = "check"]

\* (mutant) a start() that tries again when bind fails
StartBindRetrying ==
    /\ mt_pc = "created"
    /\ stop_pc["sup"] = "none"
    /\ socket' = "socket"
    /\ sock_open' = TRUE
    /\ \E bound \in BOOLEAN :
         /\ sockfile' = bound
         /\ mt_pc' = IF bound THEN "listening" ELSE "created"
    /\ UNCHANGED <<running, connection, thread, frames_received, receive_errors,
                   conn_open, frame_queue, render_vars, peer_vars, rt_pc, stop_pc, recv_locals,
                   aux_vars>>

\* DoomBridge.start, first part: unlink the old socket file, create the socket,
\* bind and listen. When bind raises, start() re-raises with self.socket set.
StartBind ==
    /\ mt_pc = "created"
    /\ stop_pc["sup"] = "none"
    /\ socket' = "socket"
    /\ sock_open' = TRUE
    /\ \E bound \in BOOLEAN :
         /\ sockfile' = bound
         /\ mt_pc' = IF bound THEN "listening" ELSE "start_raised"
    /\ UNCHANGED <<running, connection, thread, frames_received, receive_errors,
                   conn_open, frame_queue, render_vars, peer_vars, rt_pc, stop_pc, recv_locals,
                   aux_vars>>

\* (mutant) a bridge that accepts again whenever it has a listening socket and
\* no connection
StartAcceptAgain ==
    /\ mt_pc \in {"listening", "started"}
    /\ connection = None /\ socket # None /\ sock_open
    /\ peer_pc # "idle"
    /\ connection' = "connection"
    /\ conn_open' = TRUE
    /\ mt_pc' = IF mt_pc = "listening" THEN "connected" ELSE mt_pc
    /\ UNCHANGED <<running, socket, thread, frames_received, receive_errors, sock_open,
                   sockfile, frame_queue, render_vars, peer_vars, rt_pc, stop_pc,
                   recv_locals, aux_vars>>

\* self.connection, _ = self.socket.accept(); on socket.timeout: self.stop(); raise
StartAccept ==
    /\ mt_pc = "listening"
    /\ IF peer_pc # "idle"
       THEN /\ connection' = "connection"
            /\ conn_open' = TRUE
            /\ mt_pc' = "connected"
            /\ UNCHANGED stop_pc
       ELSE /\ StartCallsStop
            /\ UNCHANGED <<connection, conn_open>>
    /\ UNCHANGED <<running, socket, thread, frames_received, receive_errors, sock_open,
                   sockfile, frame_queue, render_vars, peer_vars, rt_pc,
                   recv_locals,
                   aux_vars>>

\* (mutant) a start() that goes on to start the receive loop when sending
\* INIT_COMPLETE failed
StartSendInitIgnoringFailure ==
    /\ mt_pc = "connected"
    /\ outbox' = IF SendSucceeds THEN Append(outbox, Whole(MSG_INIT_COMPLETE)) ELSE outbox
    /\ mt_pc' = "init_sent"
    /\ UNCHANGED <<bridge_vars, frame_queue, render_vars, peer_pc, peer_pending, inbox,
                   nsent, rt_pc, stop_pc, recv_locals, aux_vars>>

\* self._send_message(MSG_INIT_COMPLETE, {}); on failure: self.stop(); raise
StartSendInit ==
    /\ mt_pc = "connected"
    /\ IF SendSucceeds
       THEN /\ outbox' = Append(outbox, Whole(MSG_INIT_COMPLETE))
            /\ mt_pc' = "init_sent"
            /\ UNCHANGED stop_pc
       ELSE /\ StartCallsStop
            /\ UNCHANGED outbox
    /\ UNCHANGED <<bridge_vars, frame_queue, render_vars, peer_pc, peer_pending, inbox,
                   nsent, rt_pc, recv_locals,
                   aux_vars>>

\* self.running = True; self.thread = Thread(target=self._receive_loop); start it
StartThread ==
    /\ mt_pc = "init_sent"
    /\ running' = TRUE
    /\ thread' = "thread"
    /\ rt_pc' = "loop_top"
    /\ mt_pc' = "started"
    /\ UNCHANGED <<connection, socket, frames_received, receive_errors, conn_open,
                   sock_open, sockfile, frame_queue, render_vars, peer_vars, stop_pc, recv_locals,
                   aux_vars>>

\* ---------------------------------------------------------- send_key_event
\* (mutant) a send_key_event without the try/except around _send_message
KeyEventSendFailedRaises == "raised"

\* send_key_event: except Exception as e: print(...) - a failed send is
\* swallowed and the call returns to the listener thread.
KeyEventSendFailed == "idle"

\* The keyboard listener thread (input_handler._on_key_press/_on_key_release)
\* calls bridge.send_key_event, whatever state the bridge is in. sendall either
\* writes the whole message with its first send(), or only a first part of it
\* (the socket buffer had less room): the rest follows in a later send(),
\* with no lock held in between.
SendKeyEvent ==
    /\ key_pc = "idle"
    /\ nkeys < MaxKeys
    /\ nkeys' = nkeys + 1
    /\ IF SendSucceeds
       THEN \/ /\ outbox' = Append(outbox, Whole(MSG_KEY_EVENT))
               /\ key_pc' = "idle"
            \/ /\ outbox' = Append(outbox, FirstPart(MSG_KEY_EVENT))
               /\ key_pc' = "sent_head"
       ELSE /\ key_pc' = KeyEventSendFailed
            /\ UNCHANGED outbox
    /\ UNCHANGED <<bridge_vars, frame_queue, render_vars, peer_pc, peer_pending, inbox,
                   nsent, mt_pc, rt_pc, stop_pc, recv_locals, frame_vars, config_vars, pool_vars>>

\* sendall of send_key_event goes on: the remaining bytes, or an exception when
\* the connection was closed meanwhile.
SendKeyEventRest ==
    /\ key_pc = "sent_head"
    /\ IF SendSucceeds
       THEN /\ outbox' = Append(outbox, LastPart(MSG_KEY_EVENT))
            /\ key_pc' = "idle"
       ELSE /\ key_pc' = KeyEventSendFailed
            /\ UNCHANGED outbox
    /\ UNCHANGED <<bridge_vars, frame_queue, render_vars, peer_pc, peer_pending, inbox,
                   nsent, mt_pc, rt_pc, stop_pc, recv_locals, nkeys, frame_vars, config_vars, pool_vars>>

\* ----------------------------------------------------------------- framing
\* struct.pack('I', x): four bytes, least significant first (native order).
Pack32(x) ==
    <<x % 256, (x \div 256) % 256, (x \div 65536) % 256, (x \div 16777216) % 256>>

\* struct.unpack('I', b) of four bytes
Unpack32(b) == b[1] + 256 * b[2] + 65536 * b[3] + 16777216 * b[4]

\* header = struct.pack('II', msg_type, len(payload)); header + payload
Encode(msg) == Pack32(msg.type) \o Pack32(Len(msg.payload)) \o msg.payload

\* The message types written byte by byte: the protocol's two inbound types and
\* a number that does not fit one byte.
FramedTypes == {MSG_FRAME_DATA, MSG_SHUTDOWN, 258}

\* Payload bytes: sequences of '{' and '}' up to MaxPayloadLen, the empty one
\* included.
FramedPayloads ==
    UNION {[1..n -> {123, 125}] : n \in 0..MaxPayloadLen}

\* The sender wrote one message and, right behind it, SHUTDOWN with payload
\* '{}' (send_frame / _send_message: sendall(header + payload)); nothing is
\* read yet.
FrameInit ==
    /\ ProgramInit /\ KeyInit /\ PoolIdle
    /\ \E t \in FramedTypes, pl \in FramedPayloads :
         /\ fr_msgs = <<[type |-> t, payload |-> pl],
                        [type |-> MSG_SHUTDOWN, payload |-> <<123, 125>>]>>
         /\ fr_stream = Encode(fr_msgs[1]) \o Encode(fr_msgs[2])
    /\ fr_pc = "hdr" /\ fr_data = <<>> /\ fr_hdr = <<0, 0>> /\ fr_out = <<>>

\* (mutant) a _recv_exactly that returns what the first recv gave it
RecvExactlyDoneAfterOneRecv(data, n) == data # <<>> \/ n = 0

\* _recv_exactly: while len(data) < n
RecvExactlyDone(data, n) == Len(data) >= n

\* The n the current _recv_exactly call was given.
FrWanted == IF fr_pc = "hdr" THEN 8 ELSE fr_hdr[2]

\* chunk = self.connection.recv(n - len(data)); data += chunk: recv returns at
\* least one byte and at most as many as asked for, whatever is there.
FrRecv ==
    /\ fr_pc \in {"hdr", "pay"}
    /\ ~RecvExactlyDone(fr_data, FrWanted)
    /\ fr_stream # <<>>
    /\ \E k \in 1..(FrWanted - Len(fr_data)) :
         /\ k <= Len(fr_stream)
         /\ fr_data' = fr_data \o SubSeq(fr_stream, 1, k)
         /\ fr_stream' = SubSeq(fr_stream, k + 1, Len(fr_stream))
    /\ UNCHANGED <<program_vars, key_vars, pool_vars, fr_msgs, fr_pc, fr_hdr, fr_out>>

\* header = self._recv_exactly(8); msg_type, payload_len = struct.unpack('II',
\* header) - struct.error (caught by the loop: break) unless it has 8 bytes.
FrHeaderDone ==
    /\ fr_pc = "hdr"
    /\ RecvExactlyDone(fr_data, 8)
    /\ IF Len(fr_data) = 8
       THEN /\ fr_hdr' = <<Unpack32(SubSeq(fr_data, 1, 4)), Unpack32(SubSeq(fr_data, 5, 8))>>
            /\ fr_pc' = "pay"
       ELSE /\ fr_pc' = "break"
            /\ UNCHANGED fr_hdr
    /\ fr_data' = <<>>
    /\ UNCHANGED <<program_vars, key_vars, pool_vars, fr_stream, fr_msgs, fr_out>>

\* payload = self._recv_exactly(payload_len); if not payload: break; otherwise
\* (msg_type, payload) is what the loop decodes and dispatches.
FrPayloadDone ==
    /\ fr_pc = "pay"
    /\ RecvExactlyDone(fr_data, fr_hdr[2])
    /\ IF fr_data = <<>>
       THEN /\ fr_pc' = "break"
            /\ UNCHANGED fr_out
       ELSE /\ fr_out' = Append(fr_out, [type |-> fr_hdr[1], payload |-> fr_data])
            /\ fr_pc' = "hdr"
    /\ fr_data' = <<>>
    /\ UNCHANGED <<program_vars, key_vars, pool_vars, fr_stream, fr_msgs, fr_hdr>>

FrameNext ==
    \/ FrRecv
    \/ FrHeaderDone
    \/ FrPayloadDone

\* The receive loop's reads on one connection, byte by byte.
FrameSpec == FrameInit /\ [][FrameNext]_vars

\* -------------------------------------------------------------------- peer
\* The messages the peer may write: a type and the class of its payload bytes
\* ("json" well-formed, "badjson" not JSON, "badutf8" not UTF-8, "empty" no
\* payload at all). KEY_EVENT stands for every type the loop does not handle.
PeerMessages ==
    {<<MSG_FRAME_DATA, "json">>, <<MSG_FRAME_DATA, "badjson">>,
     <<MSG_FRAME_DATA, "badutf8">>, <<MSG_SHUTDOWN, "json">>,
     <<MSG_SHUTDOWN, "empty">>, <<MSG_KEY_EVENT, "json">>, <<MSG_KEY_EVENT, "empty">>}

\* the peer can write while its connection is pending or accepted and open
PeerCanWrite ==
    /\ peer_pc = "connected"
    /\ mt_pc = "listening" \/ conn_open
    /\ Len(inbox) < MaxInFlight

\* the peer connects to the listening socket
PeerConnect ==
    /\ peer_pc = "idle"
    /\ mt_pc = "listening"
    /\ peer_pc' = "connected"
    /\ UNCHANGED <<bridge_vars, frame_queue, render_vars, peer_pending, inbox, nsent,
                   outbox, mt_pc, rt_pc, stop_pc, recv_locals,
                   aux_vars>>

\* the peer writes the 8-byte header of its next message
PeerSendHeader ==
    /\ PeerCanWrite
    /\ peer_pending = "none"
    /\ nsent < MaxMsgs
    /\ \E m \in PeerMessages :
         /\ inbox' = Append(inbox, [k |-> "hdr", type |-> m[1],
                                    len |-> IF m[2] = "empty" THEN 0 ELSE 1,
                                    cls |-> m[2], id |-> nsent + 1])
         /\ peer_pending' = IF m[2] = "empty" THEN "none" ELSE m[2]
    /\ nsent' = nsent + 1
    /\ UNCHANGED <<bridge_vars, frame_queue, render_vars, peer_pc, outbox, mt_pc,
                   rt_pc, stop_pc, recv_locals,
                   aux_vars>>

\* the peer writes the payload the header announced
PeerSendPayload ==
    /\ PeerCanWrite
    /\ peer_pending # "none"
    /\ inbox' = Append(inbox, [k |-> "pay", type |-> 0, len |-> 1,
                               cls |-> peer_pending, id |-> nsent])
    /\ peer_pending' = "none"
    /\ UNCHANGED <<bridge_vars, frame_queue, render_vars, peer_pc, nsent, outbox,
                   mt_pc, rt_pc, stop_pc, recv_locals,
                   aux_vars>>

\* the peer closes its end (or dies)
PeerClose ==
    /\ peer_pc = "connected"
    /\ peer_pc' = "closed"
    /\ UNCHANGED <<bridge_vars, frame_queue, render_vars, peer_pending, inbox, nsent,
                   outbox, mt_pc, rt_pc, stop_pc, recv_locals,
                   aux_vars>>

\* ----------------------------------------------------------- specification
ReceiveThread ==
    \/ LoopTop
    \/ SetTimeout
    \/ RecvHeader
    \/ RecvPayload
    \/ RenderFramePut
    \/ RenderFrameGet
    \/ RenderFramePut2
    \/ FrameReceived
    \/ Stop("recv")

Next ==
    \/ StartBind
    \/ StartAccept
    \/ StartSendInit
    \/ StartThread
    \/ OnRefreshTimer
    \/ ReceiveThread
    \/ Stop("main")
    \/ SupervisorCallsStop
    \/ Stop("sup")
    \/ PeerConnect
    \/ PeerSendHeader
    \/ PeerSendPayload
    \/ PeerClose

Spec == Init /\ [][Next]_vars

\* Threads are scheduled: a step the receive thread can take is eventually
\* taken, and so is the next step of a stop() call the supervisor is in. Nothing
\* makes the supervisor call stop(), the timer tick, or the peer write.
LiveSpec == Init /\ [][Next]_vars /\ WF_vars(ReceiveThread) /\ WF_vars(Stop("sup"))

\* start() has returned: the peer is connected, INIT_COMPLETE is sent, the
\* receive thread is at the top of its loop, nothing has been received.
QueueInit ==
    /\ running = TRUE /\ connection = "connection" /\ socket = "socket"
    /\ thread = "thread"
    /\ frames_received = 0 /\ receive_errors = 0
    /\ conn_open = TRUE /\ sock_open = TRUE /\ sockfile = TRUE
    /\ frame_queue = <<>> /\ frame_count = 0 /\ last_hud_update = 0
    /\ pools = create_all_pools
    /\ refresh_count = 0 /\ processed = <<>> /\ printed = {} /\ hide_calls = NoHides
    /\ debug_mode \in BOOLEAN /\ hud_interval \in HudIntervals
    /\ peer_pc = "connected" /\ peer_pending = "none"
    /\ inbox = <<>> /\ nsent = 0 /\ outbox = <<Whole(MSG_INIT_COMPLETE)>>
    /\ mt_pc = "started" /\ rt_pc = "loop_top"
    /\ stop_pc = [t \in Threads |-> "none"]
    /\ hdr = [type |-> 0, len |-> 0] /\ cur = FrameData(0) /\ rf_full = FALSE
    /\ rd = "none"
    /\ KeyInit /\ FrameIdle /\ PoolIdle

\* One turn of the receive loop in which the peer's next message, a well-formed
\* FRAME_DATA, is there: header and payload are read, the payload parsed and
\* render_frame called with it.
DispatchFrame ==
    /\ rt_pc = "loop_top"
    /\ running
    /\ nsent < MaxFrames
    /\ nsent' = nsent + 1
    /\ hdr' = [type |-> MSG_FRAME_DATA, len |-> 1]
    /\ rd' = "data"
    /\ cur' = FrameData(nsent + 1)
    /\ rt_pc' = "rf_put"
    /\ UNCHANGED <<bridge_vars, frame_queue, render_vars, peer_pc, peer_pending, inbox,
                   outbox, mt_pc, stop_pc, rf_full, aux_vars>>

\* A running session in which the peer streams frames: the receive loop queues
\* them and the timer ticks.
QueueNext ==
    \/ DispatchFrame
    \/ RenderFramePut
    \/ RenderFrameGet
    \/ RenderFramePut2
    \/ FrameReceived
    \/ OnRefreshTimer

QueueSpec == QueueInit /\ [][QueueNext]_vars

\* The pools after construction, with every outcome of loading the footprints,
\* and a caller about to use them.
PoolInit ==
    /\ ProgramInit /\ KeyInit /\ FrameIdle
    /\ footprints \in {FootprintPoolInit(FootCap, loaded) : loaded \in SUBSET Categories}
    /\ pg_pc = "idle" /\ pg_pool = "traces" /\ pg_index = 0
    /\ pg_category = CATEGORY_UNKNOWN /\ pg_result = NoResult
    /\ fp_shown = {} /\ fp_pc = "off" /\ fp_cat = CATEGORY_UNKNOWN /\ fp_k = 0

\* The pools, and the categories a caller passes: those of FOOTPRINT_SPECS and
\* values that are none of them.
PoolNames == {"traces", "vias", "text", "footprints"}
CategoryInputs == Categories \cup {4, 9}

\* A caller is about to call get() of one of the pools.
PoolCall ==
    /\ pg_pc = "idle"
    /\ pg_pc' = "call"
    /\ pg_pool' \in PoolNames
    /\ pg_index' \in 0..MaxIndex
    /\ pg_category' \in IF pg_pool' = "footprints" THEN CategoryInputs ELSE {CATEGORY_UNKNOWN}
    /\ pg_result' = NoResult
    /\ UNCHANGED <<program_vars, key_vars, frame_vars, footprints, marker_vars>>

\* get() returns, or raises: no pool is written.
PoolGet ==
    /\ pg_pc = "call"
    /\ pg_pc' = "idle"
    /\ pg_result' = CASE pg_pool = "traces" -> TracePoolGet(pg_index)
                      [] pg_pool = "vias" -> ViaPoolGet(pg_index)
                      [] pg_pool = "text" -> TextPoolGet(pg_index)
                      [] OTHER -> FootprintPoolGet(footprints, pg_index, pg_category)
    /\ UNCHANGED <<program_vars, key_vars, frame_vars, footprints, pg_pool, pg_index,
                   pg_category, marker_vars>>

PoolNext == PoolCall \/ PoolGet

PoolSpec == PoolInit /\ [][PoolNext]_vars

\* The footprint pool after construction, every footprint off-screen, with
\* every outcome of loading the footprints, and a caller about to place the
\* footprints of a frame.
MarkerInit ==
    /\ ProgramInit /\ KeyInit /\ FrameIdle
    /\ footprints \in {FootprintPoolInit(FootCap, loaded) : loaded \in SUBSET Categories}
    /\ pg_pc = "off" /\ pg_pool = "footprints" /\ pg_index = 0
    /\ pg_category = CATEGORY_UNKNOWN /\ pg_result = NoResult
    /\ fp_shown = {} /\ fp_pc = "idle" /\ fp_cat = CATEGORY_UNKNOWN /\ fp_k = 0

\* A frame begins: the caller will place footprints of one category.
MarkerBegin ==
    /\ fp_pc \in {"idle", "hidden"}
    /\ fp_pc' = "placing"
    /\ fp_cat' \in Categories
    /\ fp_k' = 0
    /\ UNCHANGED <<program_vars, key_vars, frame_vars, footprints, pg_pc, pg_pool,
                   pg_index, pg_category, pg_result, fp_shown>>

\* The caller obtains its next footprint, get(k, c) with k less than the size
\* of the sub-pool, and puts it on the board.
MarkerPlace ==
    /\ fp_pc = "placing"
    /\ fp_k < footprints[fp_cat]
    /\ LET fp == FootprintPoolGet(footprints, fp_k, fp_cat)
       IN fp_shown' = fp_shown \cup {<<fp.category, fp.slot>>}
    /\ fp_k' = fp_k + 1
    /\ UNCHANGED <<program_vars, key_vars, frame_vars, footprints, pg_pc, pg_pool,
                   pg_index, pg_category, pg_result, fp_pc, fp_cat>>

\* The frame ends: the caller calls hide_unused with the number of footprints
\* it obtained.
MarkerHideUnused ==
    /\ fp_pc = "placing"
    /\ fp_shown' = FootprintHideUnused(footprints, fp_shown, fp_k)
    /\ fp_pc' = "hidden"
    /\ UNCHANGED <<program_vars, key_vars, frame_vars, footprints, pg_pc, pg_pool,
                   pg_index, pg_category, pg_result, fp_cat, fp_k>>

MarkerNext == MarkerBegin \/ MarkerPlace \/ MarkerHideUnused

MarkerSpec == MarkerInit /\ [][MarkerNext]_vars

\* A session in which keys are pressed and the peer writes nothing: start(),
\* the receive loop waiting for a header, stop() from any of its callers, and
\* the keyboard listener.
KeyNext ==
    \/ StartBind
    \/ StartAccept
    \/ StartSendInit
    \/ StartThread
    \/ LoopTop
    \/ SetTimeout
    \/ RecvHeader
    \/ Stop("recv")
    \/ Stop("main")
    \/ SupervisorCallsStop
    \/ Stop("sup")
    \/ PeerConnect
    \/ PeerClose
    \/ SendKeyEvent
    \/ SendKeyEventRest

KeySpec == Init /\ [][KeyNext]_vars

\* ------------------------------------------------------------------ claims
\* The bridge is STOPPED: not running, no connection, no listening socket, both
\* closed, and the socket file removed.
Stopped ==
    /\ ~running /\ connection = None /\ socket = None
    /\ ~conn_open /\ ~sock_open /\ ~sockfile

\* A stop() call of thread t ends in this step.
StopCallEnds(t) == stop_pc[t] # "none" /\ stop_pc'[t] = "none"

\* C1: whenever render_frame(f) finds the queue full, f is the newest element
\* of the queue when render_frame returns, whatever the timer does in between.
C1_DropOldestKeepsNewest ==
    [][(rt_pc \in {"rf_get", "rf_put2"} /\ rt_pc' = "rf_return")
         => (frame_queue' # <<>> /\ frame_queue'[Len(frame_queue')] = cur)]_vars

\* C2: the frames handed to _process_frame are in strictly increasing enqueue
\* order (frame ids count the peer's messages): none twice, none out of order,
\* and each one was written by the peer.
C2_ProcessedStrictlyIncreasing ==
    /\ \A i, j \in 1..Len(processed) : i < j => processed[i] < processed[j]
    /\ \A i \in 1..Len(processed) : processed[i] \in 1..nsent

\* C2 witness: two frames were processed with a dropped frame between them.
C2_Witness == processed = <<1, 3>>

C5_IdleTimeoutRetries ==
    [][(rt_pc \in {"recv_header", "recv_payload"} /\ rt_pc' # rt_pc /\ rd' = "timeout")
         => /\ rt_pc' = "loop_top"
            /\ UNCHANGED <<running, connection, conn_open, receive_errors>>]_vars

\* C6: a payload that is not well-formed (not JSON, or not UTF-8) is counted
\* once, dispatches nothing, and the loop goes on.
C6_MalformedPayloadContinues ==
    [][(rt_pc = "recv_payload" /\ rt_pc' # rt_pc /\ rd' = "data"
          /\ Head(inbox).cls \in {"badjson", "badutf8"})
         => /\ receive_errors' = receive_errors + 1
            /\ rt_pc' = "loop_top"
            /\ UNCHANGED <<running, frame_queue, frames_received>>]_vars

\* No stop() call is in progress after this step.
NoStopInProgress == \A u \in Threads : stop_pc'[u] = "none"

\* C7: on a bridge that was started, every stop() call - repeated, concurrent
\* with a receive, or interleaved with the receive thread's own - ends without
\* raising, and once no call is in progress the bridge is not running and has
\* no connection and no socket.
C7_IdempotentStop ==
    [][\A t \in Threads :
         (thread # None /\ StopCallEnds(t))
           => /\ ~(t = "recv" /\ rt_pc' = "raised")
              /\ NoStopInProgress
                   => (~running' /\ connection' = None /\ socket' = None)]_vars

\* C8: when a stop() call returns and no other is in progress, from whatever
\* state it was called, the connection and the listening socket are closed and
\* the socket file is gone.
C8_StopEffectiveFromAnyState ==
    [][\A t \in Threads :
         (StopCallEnds(t) /\ ~(t = "recv" /\ rt_pc' = "raised") /\ NoStopInProgress)
           => (~conn_open' /\ ~sock_open' /\ ~sockfile')]_vars

\* The receive loop has read a whole SHUTDOWN message and left the loop.
ShutdownReceived ==
    /\ hdr.type = MSG_SHUTDOWN
    /\ rd \in {"data", "empty"}
    /\ rt_pc = "in_stop"

\* C9: once the peer's SHUTDOWN has been received, the bridge eventually is
\* STOPPED with the socket file removed, by the receive thread's steps alone.
C9_PeerShutdownCompletes == ShutdownReceived ~> Stopped

\* C9 witness: after a SHUTDOWN with a payload the receive thread has ended
\* and the bridge is STOPPED.
C9_Witness ==
    /\ hdr.type = MSG_SHUTDOWN /\ rd = "data"
    /\ rt_pc \in {"returned", "raised"}
    /\ Stopped

\* C10: the thread running _receive_loop always ends by returning normally,
\* its own stop() call at loop exit included.
C10_ReceiveThreadReturnsNormally == rt_pc # "raised"

\* C11: a read of the header or of the payload that finds the connection closed
\* by the peer makes the loop exit into stop() without counting an error; no
\* error is counted during that stop() either, and when it ends with no other
\* stop() in progress the bridge is STOPPED.
C11_PeerDisconnectIsNotAnError ==
    [][/\ (rt_pc \in {"recv_header", "recv_payload"} /\ rt_pc' # rt_pc /\ rd' = "closed")
            => /\ rt_pc' = "in_stop"
               /\ stop_pc'["recv"] = "check"
               /\ receive_errors' = receive_errors
       /\ (rd = "closed" /\ stop_pc["recv"] # "none")
            => /\ receive_errors' = receive_errors
               /\ (StopCallEnds("recv") /\ NoStopInProgress) => Stopped']_vars

\* C11 witness: the peer closed after a frame was queued; the receive thread
\* saw it, went through stop() and ended, no error counted.
C11_Witness ==
    /\ rd = "closed"
    /\ rt_pc \in {"returned", "raised"}
    /\ frames_received >= 1
    /\ receive_errors = 0
    /\ Stopped

\* INIT_COMPLETE has reached the peer.
InitCompleteSent == \E i \in DOMAIN outbox : outbox[i].type = MSG_INIT_COMPLETE

\* C12: INIT_COMPLETE is written at most once, and exactly once when start()
\* returned; it is written with the connection accepted and before the receive
\* thread exists; before it nothing is read, decoded, counted or queued and
\* running is False; and when its send failed, start() has raised with the
\* bridge STOPPED and the receive thread never started.
C12_HandshakeOrdering ==
    /\ Cardinality({i \in DOMAIN outbox : outbox[i].type = MSG_INIT_COMPLETE}) <= 1
    /\ mt_pc = "started" => InitCompleteSent
    /\ (running \/ thread # None \/ rt_pc # "not_started") => InitCompleteSent
    /\ mt_pc = "init_sent"
         => (InitCompleteSent /\ connection # None /\ ~running /\ thread = None)
    /\ InitCompleteSent => mt_pc \in {"init_sent", "started"}
    /\ ~InitCompleteSent
         => /\ rd = "none" /\ hdr = [type |-> 0, len |-> 0]
            /\ frames_received = 0 /\ receive_errors = 0 /\ frame_queue = <<>>
    /\ (mt_pc = "start_raised" /\ peer_pc # "idle")
         => (~InitCompleteSent /\ Stopped /\ thread = None /\ rt_pc = "not_started")

\* C12 witness: after the handshake the receive loop has dispatched a frame.
C12_Witness ==
    /\ outbox # <<>> /\ outbox[1] = Whole(MSG_INIT_COMPLETE)
    /\ running /\ frames_received >= 1

\* C12, the failure case reached: the peer connected and closed, sending
\* INIT_COMPLETE failed and start() raised.
InitSendFailed == mt_pc = "start_raised" /\ peer_pc = "closed" /\ outbox = <<>>

\* DoomBridge.is_running
is_running == running /\ connection # None

\* The lifecycle state the bridge is in, as a rank: CREATED 0, LISTENING 1,
\* CONNECTED 2, RUNNING 3, STOPPING 4, STOPPED 5. Before the receive thread
\* exists and while start() has not called stop() or raised, the sockets tell;
\* afterwards the bridge is RUNNING while is_running() holds, STOPPED once
\* nothing is left, STOPPING in between.
Lifecycle ==
    IF is_running THEN 3
    ELSE IF thread # None \/ mt_pc \in {"in_stop", "start_raised"}
         THEN (IF ~running /\ connection = None /\ socket = None THEN 5 ELSE 4)
    ELSE IF connection # None THEN 2
    ELSE IF socket # None THEN 1
    ELSE 0

\* C13: no step takes the lifecycle backwards; a connection is accepted only
\* in LISTENING (so at most once, and never again after a stop); and
\* is_running() turns True only on the step from CONNECTED, so never again
\* once RUNNING was left.
C13_LifecycleOnlyForward ==
    [][/\ Lifecycle' >= Lifecycle
       /\ (connection = None /\ connection' # None) => (Lifecycle = 1 /\ Lifecycle' = 2)
       /\ (~is_running /\ is_running') => (Lifecycle = 2 /\ thread = None)]_vars

\* C13 witness: a bridge that was RUNNING has been stopped and is STOPPED.
C13_Witness == Lifecycle = 5 /\ thread # None /\ frames_received >= 1 /\ stop_pc["sup"] = "join"

\* C14: no step of send_key_event - before the connection, with it, while the
\* bridge runs, during or after stop(), with the peer gone - raises to the
\* listener thread or changes running, the connection, the sockets, or a
\* statistic; and a send that fails writes nothing.
C14_SendKeyEventNeverRaises ==
    [][(key_pc' # key_pc \/ nkeys' # nkeys)
         => /\ key_pc' # "raised"
            /\ UNCHANGED <<running, connection, socket, thread, conn_open, sock_open,
                           sockfile, frames_received, receive_errors>>
            /\ ~SendSucceeds => (outbox' = outbox /\ key_pc' = "idle")]_vars

\* C14 witness: one key event was swallowed before the peer connected and one
\* after stop(); neither reached the peer and the listener is back idle.
C14_Witness ==
    /\ nkeys = 2 /\ key_pc = "idle"
    /\ Stopped /\ thread # None
    /\ \A i \in DOMAIN outbox : outbox[i].type # MSG_KEY_EVENT

\* C15: whatever the peer has been handed, the first part of a message is
\* followed by the rest of that message and by nothing else.
C15_OutboundFramedUnits ==
    \A i \in DOMAIN outbox :
        (outbox[i].part = "head" /\ i < Len(outbox))
          => outbox[i + 1] = LastPart(outbox[i].type)

\* C16: with a non-empty payload in every message, whatever pieces recv
\* returns the bytes in: the loop never breaks, every header unpacks to the
\* type and payload length that were packed, the messages decoded so far are
\* the first messages that were encoded, bytes and all, and once every byte
\* is read they are all of them.
C16_FramingRoundTrip ==
    (\A i \in DOMAIN fr_msgs : fr_msgs[i].payload # <<>>)
      => /\ fr_pc # "break"
         /\ Len(fr_out) <= Len(fr_msgs)
         /\ \A i \in DOMAIN fr_out : fr_out[i] = fr_msgs[i]
         /\ fr_pc = "pay"
              => fr_hdr = <<fr_msgs[Len(fr_out) + 1].type,
                            Len(fr_msgs[Len(fr_out) + 1].payload)>>
         /\ (fr_stream = <<>> /\ fr_data = <<>> /\ fr_pc = "hdr") => fr_out = fr_msgs

\* C16 witness: a message with a two-byte type and a two-byte payload was
\* decoded, and the message behind it; every byte is read.
C16_Witness ==
    /\ Len(fr_out) = 2
    /\ fr_out[1] = [type |-> 258, payload |-> <<123, 125>>]
    /\ fr_stream = <<>>

\* The ids of the frames in a queue, oldest first.
Ids(q) == [i \in 1..Len(q) |-> q[i].id]

\* Five frames have been queued and the receive loop has not taken a sixth.
BurstDone == frames_received = 5 /\ nsent = 5 /\ rt_pc = "loop_top"

\* C17: when the fifth render_frame call returns and no tick has taken a frame
\* so far, the queue holds F4 and F5 in that order; and from then on, until a
\* sixth frame is taken up, what the ticks have processed followed by what is
\* still queued stays F4, F5: the dispatcher sees F4 and then F5, never F1..F3.
C17_BurstOfFiveLeavesLastTwo ==
    [][/\ (frames_received = 4 /\ frames_received' = 5 /\ processed' = <<>>)
            => Ids(frame_queue') = <<4, 5>>
       /\ (BurstDone /\ BurstDone' /\ processed \o Ids(frame_queue) = <<4, 5>>)
            => processed' \o Ids(frame_queue') = <<4, 5>>]_vars

\* C17 witness: after the burst the ticks have processed F4 and F5 and nothing
\* else.
C17_Witness == BurstDone /\ processed = <<4, 5>> /\ frame_queue = <<>>

\* A step of render_frame, or the counting of the frame that follows it
RenderFrameStep == RenderFramePut \/ RenderFrameGet \/ RenderFramePut2 \/ FrameReceived

\* C19: the queue never holds more than two frames; and inside render_frame
\* the receive thread can always take its next step, which moves it forward
\* (put, then at most get, then at most put), counts no error, and on return
\* counts the frame as received.
C19_QueueBoundedNeverBlocks ==
    [][/\ Len(frame_queue) <= QueueMaxSize
       /\ Len(frame_queue') <= QueueMaxSize
       /\ rt_pc \in {"rf_put", "rf_get", "rf_put2", "rf_return"}
            => /\ ENABLED RenderFrameStep
               /\ rt_pc' # rt_pc
                    => /\ receive_errors' = receive_errors
                       /\ rt_pc' \in (CASE rt_pc = "rf_put" -> {"rf_return", "rf_get"}
                                        [] rt_pc = "rf_get" -> {"rf_return", "rf_put2"}
                                        [] rt_pc = "rf_put2" -> {"rf_return"}
                                        [] OTHER -> {"loop_top"})
                       /\ rt_pc' = "loop_top"
                            => frames_received' = frames_received + 1]_vars

\* C19 witness: render_frame found the queue full, dropped the oldest frame and
\* returned with the queue full again.
C19_Witness ==
    /\ rf_full /\ rt_pc = "loop_top" /\ frames_received >= 3
    /\ Len(frame_queue) = QueueMaxSize
    /\ frame_queue[QueueMaxSize] = cur

\* C18 as stated: a tick takes at most one frame, and the one it takes is the
\* most recently enqueued frame then in the queue.
C18_TickConsumesNewest ==
    [][processed' # processed
         => /\ Len(processed') = Len(processed) + 1
            /\ frame_queue # <<>>
            /\ processed'[Len(processed')] = frame_queue[Len(frame_queue)].id]_vars

\* C18 amended: a tick takes at most one frame, and the one it takes is the
\* oldest frame then in the queue: every other frame in the queue was enqueued
\* after it and stays queued, in order.
C18_TickConsumesOldest ==
    [][processed' # processed
         => /\ Len(processed') = Len(processed) + 1
            /\ SubSeq(processed', 1, Len(processed)) = processed
            /\ frame_queue # <<>>
            /\ LET taken == processed'[Len(processed')]
               IN /\ taken = frame_queue[1].id
                  /\ \A i \in 2..Len(frame_queue) : frame_queue[i].id > taken
                  /\ Ids(frame_queue') = SubSeq(Ids(frame_queue), 2, Len(frame_queue))]_vars

\* C18 witness: render_frame(F3) found F1 and F2 queued, and before it went on
\* a tick took F1 and left F2.
C18_Witness ==
    /\ rt_pc = "rf_get" /\ rf_full /\ cur.id = 3
    /\ processed = <<1>>
    /\ Ids(frame_queue) = <<2>>

\* What _process_frame uses of each pool for a frame, on renderer state r:
\* nothing when the mapping is aborted by an exception; otherwise the traces
\* of walls and entities, the vias of the projectiles, and the HUD's texts when
\* the HUD is rendered (none when it is throttled).
UsedCounts(r, frame) ==
    IF ~frame.iterable THEN [traces |-> 0, vias |-> 0, text |-> 0]
    ELSE LET w == RenderWalls(r.pools.traces, frame.walls, 1, 0, frame.id)
             e == RenderEntities(w.tr, frame.entities, 1, w.idx, frame.id)
         IN [traces |-> e.idx,
             vias |-> RenderProjectileLoop(r.pools.vias, frame.projectiles, 1, 0, frame.id).idx,
             text |-> IF HudDue(r)
                      THEN Len(HudElements(frame.hud)) ELSE 0]

\* The hidden state of a slot: a trace of width 0, or one never drawn (zero
\* length at the origin, as constructed); a via off-screen; a text empty and
\* off-screen.
TraceHidden(t) == t.width = 0 \/ t = TracePoolInit[0]
ViaHidden(v) == v.pos = OffScreen
TextHidden(t) == t.text = "" /\ t.pos = OffScreen

\* C20: after every _process_frame call, in every pool, every slot at an index
\* from that frame's used-count on is hidden.
C20_HideInvariant ==
    [][processed' # processed
         => LET u == UsedCounts([pools |-> pools, frame_count |-> frame_count,
                                 last_hud_update |-> last_hud_update], Head(frame_queue))
            IN /\ \A i \in DOMAIN pools'.traces :
                    i >= u.traces => TraceHidden(pools'.traces[i])
               /\ \A i \in DOMAIN pools'.vias :
                    i >= u.vias => ViaHidden(pools'.vias[i])
               /\ \A i \in DOMAIN pools'.text :
                    i >= u.text => TextHidden(pools'.text[i])]_vars

\* The renderer state a tick hands to _process_frame, and the frame it takes.
RendererState ==
    [pools |-> pools, frame_count |-> frame_count, last_hud_update |-> last_hud_update]

\* The number of pool entries a frame asks for: four for every wall that is
\* drawn (eight fields, not a portal) and four for every entity.
EdgesRequired(frame) ==
    EDGES_PER_WALL *
      (Cardinality({w \in DOMAIN frame.walls :
                       frame.walls[w].n >= 8 /\ frame.walls[w].silhouette # 0})
       + Cardinality({k \in DOMAIN frame.entities : frame.entities[k].isdict}))

\* A tick takes a well-formed frame that asks for more entries than the
\* line-segment pool has.
TickOverCapacity ==
    /\ processed' # processed
    /\ Head(frame_queue).iterable
    /\ EdgesRequired(Head(frame_queue)) > TraceCap

\* What C21 says of the pool and of exceptions, for a tick over capacity:
\* every slot 0..C-1 is drawn by this frame and visible, the last index given
\* to TracePool.get is C-1, and the frame is counted (no exception).
TruncatedToCapacity ==
    /\ \A i \in DOMAIN pools'.traces :
          /\ pools'.traces[i].geom[1][1] = Head(frame_queue).id
          /\ pools'.traces[i].width # 0
    /\ UsedCounts(RendererState, Head(frame_queue)).traces = TraceCap
    /\ frame_count' = frame_count + 1
    /\ FrameRenderingFailed \notin printed'

\* C21 as stated: a frame that needs more than C edges fills exactly the slots
\* 0..C-1, never asks TracePool.get for an index >= C, raises nothing, and a
\* pool-exhausted warning is recorded.
C21_CapacityTruncationWarns ==
    [][TickOverCapacity
         => TruncatedToCapacity /\ TracePoolExhausted \in printed']_vars

\* C21 amended: a frame that needs more than C edges fills exactly the slots
\* 0..C-1, never asks TracePool.get for an index >= C and raises nothing; the
\* pool-exhausted warning is recorded when debug mode is on, and only then.
C21_CapacityTruncation ==
    [][TickOverCapacity
         => TruncatedToCapacity /\ (TracePoolExhausted \in printed' <=> debug_mode)]_vars

\* C21 witness: in debug mode the fifth frame (two drawn walls and an entity)
\* has filled the whole pool and the warning was printed.
C21_Witness ==
    /\ debug_mode /\ processed # <<>> /\ processed[Len(processed)] = 5
    /\ EdgesRequired(FrameData(5)) > TraceCap
    /\ printed = {TracePoolExhausted}
    /\ \A i \in DOMAIN pools.traces : pools.traces[i].geom[1][1] = 5

\* The slots of a line-segment pool that are visible, and those among them
\* that frame fid drew for its wall number w.
VisibleTraces(tr) == {i \in DOMAIN tr : tr[i].width # 0}
WallTraces(tr, fid, w) == {i \in VisibleTraces(tr) : tr[i].geom[1] = <<fid, "wall", w>>}

PoolInstances(p) ==
    [traces |-> DOMAIN p.traces, vias |-> DOMAIN p.vias, text |-> DOMAIN p.text]

\* C23: no step, and so no _process_frame call on any frame, creates or
\* destroys a pool instance: every pool keeps the instances it was constructed
\* with, as many as its capacity.
C23_PoolNonAllocation ==
    [][/\ PoolInstances(pools') = PoolInstances(pools)
       /\ PoolInstances(pools') = PoolInstances(create_all_pools)
       /\ Cardinality(DOMAIN pools'.traces) = TraceCap
       /\ Cardinality(DOMAIN pools'.vias) = ViaCap
       /\ Cardinality(DOMAIN pools'.text) = TextCap]_vars

\* C23 witness: frames of different sizes were processed, one that used half
\* of the line-segment pool and one that asked for more than it has, and one
\* was aborted.
C23_Witness ==
    /\ PoolInstances(pools) = PoolInstances(create_all_pools)
    /\ \E i, j, k \in DOMAIN processed :
          /\ processed[i] = 4 /\ EdgesRequired(FrameData(4)) < TraceCap
          /\ processed[j] = 5 /\ EdgesRequired(FrameData(5)) > TraceCap
          /\ processed[k] = 3 /\ ~FrameData(3).iterable
    /\ pools # create_all_pools

\* The last _process_frame call was aborted by an exception.
LastFrameAborted == FrameRenderingFailed \in printed

\* C24: a tick whose frame raises while it is mapped logs the error, counts
\* nothing, and ends like any other tick (the main thread goes on, the display
\* is refreshed once); afterwards the timer can tick again, and a tick that
\* follows an aborted frame takes the next queued frame and, when that frame
\* is well-formed, maps and counts it.
C24_ExceptionAbortsOnlyThatFrame ==
    [][/\ (processed' # processed /\ ~Head(frame_queue).iterable)
            => /\ LastFrameAborted'
               /\ frame_count' = frame_count
               /\ last_hud_update' = last_hud_update
               /\ mt_pc' = mt_pc
               /\ refresh_count' = refresh_count + 1
               /\ frame_queue' = Tail(frame_queue)
       /\ LastFrameAborted => TimerCanTick
       /\ (LastFrameAborted /\ processed' # processed)
            => /\ processed' = Append(processed, Head(frame_queue).id)
               /\ Head(frame_queue).iterable
                    => /\ ~LastFrameAborted'
                       /\ frame_count' = frame_count + 1
                       /\ Cardinality(VisibleTraces(pools'.traces))
                            = IF EdgesRequired(Head(frame_queue)) > TraceCap THEN TraceCap
                              ELSE EdgesRequired(Head(frame_queue))]_vars

\* C24 witness: the third frame was aborted and the tick after it mapped the
\* fourth; three frames are counted.
C24_Witness ==
    /\ processed = <<1, 2, 3, 4>>
    /\ ~FrameData(3).iterable
    /\ frame_count = 3
    /\ ~LastFrameAborted
    /\ \A i \in 0..3 : pools.traces[i].geom[1][1] = 4

\* C25: with throttle interval N, a tick writes the text pool only when the
\* number of frames counted so far is a multiple of N, and then with the HUD of
\* the frame it maps; on every other frame, and on an aborted one, every text
\* slot and the throttle's bookkeeping stay as they are; and no more than N
\* counted frames ever pass without the HUD being drawn.
C25_HudThrottling ==
    [][processed' # processed
         => /\ (frame_count % hud_interval # 0 \/ frame_count' = frame_count)
                 => /\ pools'.text = pools.text
                    /\ last_hud_update' = last_hud_update
            /\ (pools'.text # pools.text \/ last_hud_update' # last_hud_update)
                 => /\ frame_count % hud_interval = 0
                    /\ last_hud_update' = frame_count
                    /\ pools'.text = RenderHud(pools.text, Head(frame_queue).hud,
                                               Head(frame_queue).id)
            /\ frame_count' - last_hud_update' \in 0..hud_interval]_vars

\* C25 witness: with the default interval the sixth counted frame, and no
\* earlier one, drew the HUD.
C25_Witness ==
    /\ hud_interval = HUD_UPDATE_INTERVAL
    /\ frame_count = HUD_UPDATE_INTERVAL + 1
    /\ last_hud_update = HUD_UPDATE_INTERVAL
    /\ pools.text[0] = [text |-> "HEALTH", pos |-> <<processed[Len(processed)], 0>>]
    /\ pools.text[3].text = "KEYS"

\* C26: with the throttle interval set to 1, the first tick that processes a
\* frame after construction (frame 0) also writes the HUD text slots.
C26_HudOnFirstFrame ==
    [][(hud_interval = 1 /\ processed = <<>> /\ processed' # processed)
         => /\ pools'.text = RenderHud(pools.text, Head(frame_queue).hud,
                                       Head(frame_queue).id)
            /\ pools'.text[0].text = "HEALTH"]_vars

\* A call of get() on the named pool has just returned or raised.
Returned(pool) == pg_pc = "idle" /\ pg_pool = pool /\ pg_result # NoResult

\* C27: TracePool.get(index) gives the slot at exactly that index when
\* 0 <= index < capacity and raises IndexError when index >= capacity: it
\* never wraps, and the pool is as it was before the call.
C27_TracePoolGetRaisesAtCapacity ==
    [][/\ Returned("traces")'
            => /\ pg_index' < TraceCap
                    => pg_result'.error = "none" /\ pg_result'.slot = pg_index'
               /\ pg_index' >= TraceCap => pg_result'.error = "IndexError"
       /\ pools' = pools /\ DOMAIN pools.traces = 0..(TraceCap - 1)]_vars

\* C27 witness: get(capacity) has raised IndexError, where a wrapping pool
\* would have returned slot 0.
C27_Witness ==
    /\ Returned("traces") /\ pg_index = TraceCap
    /\ pg_result.error = "IndexError"
    /\ pools = create_all_pools

\* C28: ViaPool.get and TextPool.get raise for no index >= 0 and give the slot
\* at index modulo capacity, so that an index and the same index plus any
\* number of capacities give the same slot.
C28_ViaTextGetWraps ==
    /\ Returned("vias")
         => /\ pg_result = [error |-> "none", slot |-> pg_index % ViaCap]
            /\ \A k \in 0..3 : ViaPoolGet(pg_index + k * ViaCap) = pg_result
    /\ Returned("text")
         => /\ pg_result = [error |-> "none", slot |-> pg_index % TextCap]
            /\ \A k \in 0..3 : TextPoolGet(pg_index + k * TextCap) = pg_result

\* C28 witness: get(2 * capacity + 1) of the text pool has returned slot 1.
C28_Witness ==
    /\ Returned("text") /\ pg_index = 2 * TextCap + 1
    /\ pg_result.slot = 1 /\ pg_result.error = "none"

\* The sub-pool C29 has get(index, category) select: the category's own, or
\* the default one for a category that has none.
SelectedCategory == IF pg_category \in Categories THEN pg_category ELSE CATEGORY_UNKNOWN

\* C29 as stated: FootprintPool.get raises nothing, whatever the category,
\* and returns a slot of the selected sub-pool, the one at index modulo the
\* sub-pool's size.
C29_FootprintGetReturnsSlot ==
    Returned("footprints")
      => /\ pg_result.error = "none"
         /\ pg_result.category = SelectedCategory
         /\ ~pg_result.none
         /\ pg_result.slot = pg_index % footprints[SelectedCategory]

\* C29 amended: FootprintPool.get raises nothing, whatever the category; when
\* the selected sub-pool is empty it returns None, and otherwise a slot of the
\* selected sub-pool, the one at index modulo the sub-pool's size.
C29_FootprintGetSelectsAndWraps ==
    Returned("footprints")
      => /\ pg_result.error = "none"
         /\ pg_result.category = SelectedCategory
         /\ pg_result.none <=> footprints[SelectedCategory] = 0
         /\ ~pg_result.none
              => /\ pg_result.slot = pg_index % footprints[SelectedCategory]
                 /\ pg_result.slot \in 0..(footprints[SelectedCategory] - 1)

\* C29 witness: get(7, 9), a category without a sub-pool, has returned the
\* third of the five fallback footprints.
C29_Witness ==
    /\ Returned("footprints") /\ pg_index = 7 /\ pg_category = 9
    /\ 9 \notin Categories
    /\ pg_result = [error |-> "none", none |-> FALSE, category |-> CATEGORY_UNKNOWN,
                    slot |-> 2]

\* start() has failed: it is in the stop() it calls before re-raising, or has
\* raised to its caller.
StartFailed == mt_pc \in {"in_stop", "start_raised"}

\* C30: when bind fails start() raises at once; when accept times out it
\* calls stop() and then raises; once it has failed it stays failed: it binds
\* and accepts no more (no socket and no connection is made), running is never
\* set and the receive thread is never started.
C30_TransportFatalNotRetried ==
    [][/\ (mt_pc = "created" /\ socket' # socket /\ ~sockfile')
            => mt_pc' = "start_raised"
       /\ (mt_pc = "listening" /\ mt_pc' # mt_pc /\ connection' = None)
            => mt_pc' = "in_stop"
       /\ (mt_pc = "in_stop" /\ mt_pc' # mt_pc) => mt_pc' = "start_raised"
       /\ mt_pc = "start_raised" => mt_pc' = "start_raised"
       /\ StartFailed
            => /\ socket' \in {socket, None}
               /\ connection' \in {connection, None}
       /\ StartFailed'
            => ~running' /\ thread' = None /\ rt_pc' = "not_started"]_vars

\* C30 witness: no peer connected, accept timed out and start() has raised:
\* the bridge is not running and has no receive thread.
C30_Witness ==
    /\ mt_pc = "start_raised" /\ peer_pc = "idle" /\ sockfile
    /\ connection = None /\ ~running /\ thread = None /\ rt_pc = "not_started"

\* C31: once running is False on a bridge whose receive thread was started
\* (stop() has flipped the flag), the receive thread dispatches nothing more:
\* no frame is put on the frame queue and frames_received stays as it is, also
\* when a message was read, or half read, at that moment.
C31_CancellationHonoured ==
    [][(thread # None /\ ~running)
         => /\ Len(frame_queue') <= Len(frame_queue)
            /\ frames_received' = frames_received]_vars

\* The message types _receive_loop has no branch for.
UnknownType(t) == t \notin {MSG_FRAME_DATA, MSG_SHUTDOWN}

\* C32: a message whose header announces a payload of length 0 is a complete
\* message: the loop handles it by its type, a SHUTDOWN by leaving the loop
\* into stop(), and one of unknown type by going on - the session does not end
\* and no error is counted.
C32_EmptyPayloadIsComplete ==
    [][(rt_pc = "recv_payload" /\ hdr.len = 0 /\ rt_pc' # rt_pc)
         => /\ hdr.type = MSG_SHUTDOWN => rt_pc' = "in_stop"
            /\ UnknownType(hdr.type)
                 => /\ rt_pc' = "loop_top"
                    /\ UNCHANGED <<running, receive_errors, stop_pc>>]_vars

\* C33: a whole message with a well-formed payload and a type the loop does
\* not know is counted as a receive error and ignored: the loop goes on,
\* running is unchanged, nothing is queued and no frame is counted.
C33_UnknownTypeCountedAndIgnored ==
    [][(/\ rt_pc = "recv_payload" /\ rt_pc' # rt_pc /\ rd' = "data"
        /\ Head(inbox).cls = "json" /\ UnknownType(hdr.type))
         => /\ receive_errors' = receive_errors + 1
            /\ rt_pc' = "loop_top"
            /\ UNCHANGED <<running, frame_queue, frames_received, stop_pc>>]_vars

\* The slots of a line-segment pool that frame fid drew for a wall ("wall") or
\* for an entity ("entity").
SlotsOf(tr, fid, kind) ==
    {i \in DOMAIN tr : tr[i].geom[1][1] = fid /\ tr[i].geom[1][2] = kind}

\* Slot i was drawn before slot j: for an earlier wall (or entity) of the
\* frame, or as an earlier edge of the same one.
DrawnBefore(tr, i, j) ==
    \/ tr[i].geom[1][3] < tr[j].geom[1][3]
    \/ tr[i].geom[1][3] = tr[j].geom[1][3] /\ tr[i].geom[2] < tr[j].geom[2]

\* The number of slots the walls of a frame take: four for every wall that is
\* drawn, up to the capacity of the pool.
WallSlotsRequired(frame) ==
    LET n == EDGES_PER_WALL *
               Cardinality({w \in DOMAIN frame.walls :
                               frame.walls[w].n >= 8 /\ frame.walls[w].silhouette # 0})
    IN IF n > TraceCap THEN TraceCap ELSE n

C35_UsedCountWithinCapacity ==
    /\ \A i \in DOMAIN hide_calls.traces : hide_calls.traces[i] <= TraceCap
    /\ \A i \in DOMAIN hide_calls.vias : hide_calls.vias[i] <= ViaCap
    /\ \A i \in DOMAIN hide_calls.text : hide_calls.text[i] <= TextCap

C37_GetAndHideAgree ==
    fp_pc = "hidden" => fp_shown = {<<fp_cat, i>> : i \in 0..(fp_k - 1)}

\* The places in what the peer was handed where a SHUTDOWN stands.
ShutdownsSent == {i \in DOMAIN outbox : outbox[i].type = MSG_SHUTDOWN}

\* C38: in a session at most one SHUTDOWN is written to the peer, however the
\* stop() calls of the receive thread and of other threads interleave, and
\* nothing of any type is written after it.
C38_ShutdownOnceAndLast ==
    /\ Cardinality(ShutdownsSent) <= 1
    /\ \A i \in ShutdownsSent : i = Len(outbox)

\* C39: frames_received is the number of well-formed FRAME_DATA messages the
\* loop has dispatched (one less while the last one is still inside
\* render_frame), whether or not the queue dropped them later;
\* receive_errors never goes down; and in every state the renderer's
\* frame_count is at most frames_received.
C39_StatisticsAccounting ==
    [][/\ frames_received = IF rt_pc = "loop_top" THEN nsent ELSE nsent - 1
       /\ receive_errors' >= receive_errors
       /\ frame_count <= frames_received]_vars

====
